---- MODULE Spec2Model ----
(***************************************************************************)
(* Model of the organization-permission query tool: the recursive          *)
(* dual-cursor pagination of retrieveQueryResults, the record mapping of   *)
(* createUserSummary, getUniqueInstances, sort, and the application that   *)
(* runs them and writes the result.                                        *)
(*                                                                         *)
(* Values that may be null (Maybe<T> of the GraphQL schema) are sets of    *)
(* at most one element: Null is {} and Some(x) is {x}.                     *)
(***************************************************************************)
EXTENDS Integers, Sequences, FiniteSets, TLC

VARIABLES
    org,          \* the data the remote API serves (constant during a run)
    api,          \* how the API reports the last page of a connection
    legacy,       \* the do-while loop of the first script: position and endCursor
    options,      \* the parsed command line: paginate, sortBy, showAllUsers
    phase,        \* position of the application
    stack,        \* the active calls of retrieveQueryResults, innermost last
    requests,     \* the variables of every request issued, in order
    inflight,     \* number of requests issued and not yet answered
    failed,       \* the variables of every request that threw, in order
    received,     \* records of every response received successfully
    raw,          \* what retrieveQueryResults returned to execute
    returned,     \* what execute returned
    written,      \* what writeToConsole was given
    fnOp,         \* function specification: the function applied
    fnIn,         \* function specification: its input
    fnOut         \* function specification: its output

vars == <<org, api, legacy, options, phase, stack, requests, inflight, failed, received,
          raw, returned, written, fnOp, fnIn, fnOut>>

runVars == <<org, api, legacy, options, phase, stack, requests, inflight, failed, received,
             raw, returned, written>>

fnVars == <<fnOp, fnIn, fnOut>>

----------------------------------------------------------------------------
(* Bounds of the model *)

\* Most pages of the repository connection.
MaxOuter == 2

\* Most repositories on one page of the repository connection.
MaxRepos == 2

\* Most pages of one repository's collaborator connection.
MaxInner == 3

\* Most pages an organization is made of: see TotalPages.
MaxTotalPages == 6

\* Most pages of an organization whose API may report a next page without a cursor.
MaxBrokenPages == 3

\* Most requests that throw in one run.
MaxFailures == 1

\* Longest input sequence given to getUniqueInstances and sort.
MaxLen == 3

\* Longest permissionSources list given to createUserSummary.
MaxSources == 2

----------------------------------------------------------------------------
(* Values *)

Null == {}

Some(x) == {x}

\* m ?? d
OrElse(m, d) == IF m = Null THEN d ELSE CHOOSE x \in m : TRUE

Range(s) == {s[i] : i \in 1..Len(s)}

RECURSIVE SumSeq(_)
SumSeq(s) == IF s = <<>> THEN 0 ELSE Head(s) + SumSeq(Tail(s))

\* Strings in the order localeCompare puts them.
Collation == <<"acme/api", "acme/cli", "acme/db", "acme/docs", "acme/infra",
               "acme/ops", "acme/sdk", "acme/ui", "acme/web",
               "alice", "bob", "carol", "dave", "erin", "frank", "grace", "heidi",
               "unknown">>

Rank(s) == CHOOSE i \in 1..Len(Collation) : Collation[i] = s

\* left.localeCompare(right): negative, zero or positive
localeCompare(left, right) ==
    IF Rank(left) < Rank(right) THEN -1
    ELSE IF Rank(left) > Rank(right) THEN 1 ELSE 0

RepoNames == SubSeq(Collation, 1, 9)

Handles == SubSeq(Collation, 10, 17)

Permissions == <<"READ", "WRITE", "ADMIN">>

\* The cursors the API hands out: Cursors[p] is the end cursor of page p.
Cursors == <<"c1", "c2", "c3", "c4", "c5">>

\* The page a cursor ends; null starts before the first page.
PageOf(cursor) ==
    IF cursor = Null \/ cursor = Some("") THEN 0
    ELSE CHOOSE p \in 1..Len(Cursors) : Cursors[p] = OrElse(cursor, "")

----------------------------------------------------------------------------
(* The permission sources of the GraphQL response: a source is an object   *)
(* holding only the field its type's fragment selects.                     *)

OrganizationSource(login) == [login |-> login]

RepositorySource(nameWithOwner) == [nameWithOwner |-> nameWithOwner]

TeamSource(name) == [name |-> name]

\* Builds the response object of a source given as <<kind, name, permission>>.
PermissionSource(desc) ==
    [permission |-> desc[3],
     source |-> IF desc[1] = "Organization" THEN OrganizationSource(desc[2])
                ELSE IF desc[1] = "Repository" THEN RepositorySource(desc[2])
                ELSE TeamSource(desc[2])]

\* isOrganization testing the field of a team.
isOrganization_byName(source) == "name" \in DOMAIN source

isOrganization(source) == "login" \in DOMAIN source

isRepository(source) == "nameWithOwner" \in DOMAIN source

isTeam(source) == "name" \in DOMAIN source

\* Index of the first TRUE of a sequence of booleans, 0 when there is none.
FindIndex(flags) ==
    IF \E i \in 1..Len(flags) : flags[i]
    THEN CHOOSE i \in 1..Len(flags) : flags[i] /\ \A j \in 1..(i - 1) : ~flags[j]
    ELSE 0

\* sources.find(src => isOrganization(src.source))?.permission ?? null
findOrganizationPermission(sources) ==
    LET i == FindIndex([k \in 1..Len(sources) |-> isOrganization(sources[k].source)])
    IN  IF i = 0 THEN Null ELSE Some(sources[i].permission)

\* sources.find(src => isRepository(src.source))?.permission ?? null
findRepositoryPermission(sources) ==
    LET i == FindIndex([k \in 1..Len(sources) |-> isRepository(sources[k].source)])
    IN  IF i = 0 THEN Null ELSE Some(sources[i].permission)

RECURSIVE TeamPermissions(_)
TeamPermissions(sources) ==
    IF sources = <<>> THEN <<>>
    ELSE (IF isTeam(Head(sources).source)
          THEN <<[permission |-> Head(sources).permission,
                  name |-> Head(sources).source.name]>>
          ELSE <<>>) \o TeamPermissions(Tail(sources))

createUserSummary(repository, user) ==
    [repository |-> OrElse(repository.nameWithOwner, "unknown"),
     handle |-> user.node.login,
     permission |-> user.permission,
     organizationPermission |->
        IF user.permissionSources = Null THEN Null
        ELSE findOrganizationPermission(OrElse(user.permissionSources, <<>>)),
     repositoryPermission |->
        IF user.permissionSources = Null THEN Null
        ELSE findRepositoryPermission(OrElse(user.permissionSources, <<>>)),
     teamPermission |->
        IF user.permissionSources = Null THEN Null
        ELSE Some(TeamPermissions(OrElse(user.permissionSources, <<>>)))]

processCollaborators(repo, collaborators) ==
    [i \in 1..Len(collaborators.edges) |-> createUserSummary(repo, collaborators.edges[i])]

\* processAdditionalPages with the test of the cursor negated.
processAdditionalPages_negatedCursor(paginate, pageInfo) ==
    /\ paginate
    /\ pageInfo.hasNextPage
    /\ ~(pageInfo.endCursor # Null /\ pageInfo.endCursor # Some(""))

\* processAdditionalPages without the test of paginate.
processAdditionalPages_ignoresPaginate(paginate, pageInfo) ==
    /\ pageInfo.hasNextPage
    /\ pageInfo.endCursor # Null
    /\ pageInfo.endCursor # Some("")

\* A test that does not look at the cursor.
processAdditionalPages_ignoresCursor(paginate, pageInfo) ==
    paginate /\ pageInfo.hasNextPage

\* The condition under which processAdditionalPages fetches another page.
processAdditionalPages(paginate, pageInfo) ==
    /\ paginate
    /\ pageInfo.hasNextPage
    /\ pageInfo.endCursor # Null
    /\ pageInfo.endCursor # Some("")

----------------------------------------------------------------------------
(* getUniqueInstances and sort *)

\* JSON.stringify of a team permission: its fields in the order of the literal.
stringifyTeam(team) == <<team.permission, team.name>>

parseTeam(text) == [permission |-> text[1], name |-> text[2]]

\* JSON.stringify that leaves the nested team list out.
JSONstringify_shallow(item) ==
    <<item.repository, item.handle, item.permission,
      item.organizationPermission, item.repositoryPermission, Null>>

\* JSON.stringify of a summary: the fields in the order createUserSummary
\* writes them, a null as null, the team list element by element.
JSONstringify(item) ==
    <<item.repository, item.handle, item.permission,
      item.organizationPermission, item.repositoryPermission,
      IF item.teamPermission = Null THEN Null
      ELSE LET teams == OrElse(item.teamPermission, <<>>)
           IN  Some([i \in 1..Len(teams) |-> stringifyTeam(teams[i])])>>

JSONparse(text) ==
    [repository |-> text[1],
     handle |-> text[2],
     permission |-> text[3],
     organizationPermission |-> text[4],
     repositoryPermission |-> text[5],
     teamPermission |->
        IF text[6] = Null THEN Null
        ELSE LET teams == OrElse(text[6], <<>>)
             IN  Some([i \in 1..Len(teams) |-> parseTeam(teams[i])])]

\* Removing the repeated values in place while the index moves on: the value
\* behind a removed one is skipped.
RECURSIVE SpliceLoop(_, _)
SpliceLoop(items, i) ==
    IF i > Len(items) THEN items
    ELSE IF items[i] \in Range(SubSeq(items, 1, i - 1))
         THEN SpliceLoop(SubSeq(items, 1, i - 1) \o SubSeq(items, i + 1, Len(items)),
                         i + 1)
         ELSE SpliceLoop(items, i + 1)

ArrayFromSet_spliceLoop(items) == SpliceLoop(items, 1)

\* Array.from(new Set(items)): the first occurrence of each value, in order.
RECURSIVE ArrayFromSet(_)
ArrayFromSet(items) ==
    IF items = <<>> THEN <<>>
    ELSE LET before == ArrayFromSet(SubSeq(items, 1, Len(items) - 1))
             last == items[Len(items)]
         IN  IF last \in Range(before) THEN before ELSE Append(before, last)

\* getUniqueInstances without the Set: every item is kept.
getUniqueInstances_keepsDuplicates(instance) ==
    LET unique == [i \in 1..Len(instance) |-> JSONstringify(instance[i])]
    IN  [i \in 1..Len(unique) |-> JSONparse(unique[i])]

getUniqueInstances(instance) ==
    LET unique == ArrayFromSet([i \in 1..Len(instance) |-> JSONstringify(instance[i])])
    IN  [i \in 1..Len(unique) |-> JSONparse(unique[i])]

\* a || b on numbers
OrNumber(a, b) == IF a # 0 THEN a ELSE b

\* The comparator of "user" without its second key.
sortByUser_primaryOnly(left, right) == localeCompare(left.handle, right.handle)

sortByUser(left, right) ==
    OrNumber(localeCompare(left.handle, right.handle),
             localeCompare(left.repository, right.repository))

sortByRepository(left, right) ==
    OrNumber(localeCompare(left.repository, right.repository),
             localeCompare(left.handle, right.handle))

compare(by, left, right) ==
    IF by = "user" THEN sortByUser(left, right) ELSE sortByRepository(left, right)

\* x put into a sorted sequence behind every element that does not sort after it
InsertSorted(sorted, x, by) ==
    LET n == Cardinality({i \in 1..Len(sorted) :
                            \A j \in 1..i : compare(by, sorted[j], x) <= 0})
    IN  SubSeq(sorted, 1, n) \o <<x>> \o SubSeq(sorted, n + 1, Len(sorted))

\* Array.prototype.sort with a comparator: a stable sort.
RECURSIVE ArraySort(_, _)
ArraySort(results, by) ==
    IF results = <<>> THEN <<>>
    ELSE InsertSorted(ArraySort(SubSeq(results, 1, Len(results) - 1), by),
                      results[Len(results)], by)

sort(results, by) == ArraySort(results, by)

\* writeToConsole prints every element of data, in order, in the given format.
writeToConsole(data) == data

----------------------------------------------------------------------------
(* The organization the remote API serves: the repository connection has   *)
(* shape.pages pages, and repository k of each has shape.layout[k] pages   *)
(* of collaborators; 0 stands for a repository whose collaborators are     *)
(* null.  The names and the collaborators differ from page to page.        *)

Layouts == UNION {[1..k -> 0..MaxInner] : k \in 0..MaxRepos}

\* The pages a complete retrieval has to fetch: every page of the repository
\* connection, which brings the first collaborator page of each of its
\* repositories, and every further collaborator page.
TotalPages(shape) ==
    shape.pages * (1 + SumSeq([k \in 1..Len(shape.layout) |->
                                 IF shape.layout[k] > 1 THEN shape.layout[k] - 1
                                 ELSE 0]))

Organizations ==
    {shape \in [pages : 1..MaxOuter, layout : Layouts] :
        TotalPages(shape) <= MaxTotalPages}

RepoName(o, k) == RepoNames[((((o - 1) * MaxRepos + k) * 2) % Len(RepoNames)) + 1]

\* Collaborators per page: two in the odd repositories of a page, one in the even.
PageSize(k) == IF k % 2 = 1 THEN 2 ELSE 1

\* Edge q of the collaborators of repository k of outer page o.
Edge(o, k, q) ==
    [permission |-> Permissions[((q + k + o) % 3) + 1],
     permissionSources |->
        IF q % 3 = 1 THEN Some(<<PermissionSource(<<"Organization", "acme", "READ">>)>>)
        ELSE IF q % 3 = 2
             THEN Some(<<PermissionSource(<<"Team", "T1", "WRITE">>),
                         PermissionSource(<<"Organization", "acme", "READ">>)>>)
             ELSE Null,
     node |-> [login |-> Handles[((q * 3) % Len(Handles)) + 1]]]

\* Page p of the collaborators of repository k of outer page o.
EdgesOfPage(o, k, p) ==
    [j \in 1..PageSize(k) |-> Edge(o, k, (p - 1) * PageSize(k) + j)]

\* The pageInfo of the last page of a connection.  An API that keeps to the
\* schema reports no next page and the cursor of the page; the others report
\* a next page and hand out no cursor (null) or an empty one.
LastPageInfo(cursor) ==
    IF api = "cursor" THEN [hasNextPage |-> FALSE, endCursor |-> Some(cursor)]
    ELSE IF api = "null" THEN [hasNextPage |-> TRUE, endCursor |-> Null]
    ELSE [hasNextPage |-> TRUE, endCursor |-> Some("")]

\* The pageInfo of page p of a connection of the given number of pages.
PageInfo(p, pages) ==
    IF p < pages THEN [hasNextPage |-> TRUE, endCursor |-> Some(Cursors[p])]
    ELSE IF p = pages THEN LastPageInfo(Cursors[p])
    ELSE [hasNextPage |-> FALSE, endCursor |-> Null]

\* collaborators(first: .., after: $innerCursor) of one repository
Collaborators(shape, o, k, innerCursor) ==
    LET pages == shape.layout[k]
        p == PageOf(innerCursor) + 1
    IN  IF pages = 0 THEN Null
        ELSE Some([edges |-> IF p <= pages THEN EdgesOfPage(o, k, p) ELSE <<>>,
                   pageInfo |-> PageInfo(p, pages)])

\* The response of the API to the query with the given variables.
ClientQuery(shape, variables) ==
    LET o == PageOf(variables.endCursor) + 1
        n == shape.pages
    IN  [organization |->
          [repositories |->
            [nodes |-> IF o <= n
                       THEN [k \in 1..Len(shape.layout) |->
                               [nameWithOwner |-> Some(RepoName(o, k)),
                                collaborators |->
                                    Collaborators(shape, o, k, variables.innerCursor)]]
                       ELSE <<>>,
             pageInfo |-> IF shape.layout = <<>>
                          THEN [hasNextPage |-> o < n, endCursor |-> Null]
                          ELSE PageInfo(o, n)]]]

\* The summaries of the collaborators a response holds.
RecordsOf(result) ==
    LET nodes == result.organization.repositories.nodes
    IN  UNION {IF nodes[k].collaborators = Null THEN {}
               ELSE Range(processCollaborators(nodes[k],
                                               OrElse(nodes[k].collaborators, <<>>))) :
               k \in 1..Len(nodes)}

\* Every summary the API can serve for the organization.
AllRecords(shape) ==
    UNION {Range([j \in 1..PageSize(k) |->
                    createUserSummary([nameWithOwner |-> Some(RepoName(o, k))],
                                      EdgesOfPage(o, k, p)[j])]) :
           <<o, k, p>> \in {t \in (1..shape.pages) \X (1..MaxRepos) \X (1..MaxInner) :
                              /\ t[2] <= Len(shape.layout)
                              /\ t[3] <= shape.layout[t[2]]}}

----------------------------------------------------------------------------
(* The calls of retrieveQueryResults *)

\* A call about to run with the given variables.
NewCall(variables) ==
    [variables |-> variables, pc |-> "query", result |-> Null, i |-> 0, results |-> <<>>]

\* A run of the model issues no more requests than this: the cap keeps the
\* model finite whatever the recursion does, and no run reaches it.
RequestCap == 4 * MaxTotalPages

\* The variables execute starts with.
InitialVariables(organization) ==
    [orgname |-> organization, endCursor |-> Null, innerCursor |-> Null]

\* The recursive call is given the variables of its caller, cursor included.
InnerContext_sameCursor(variables, pageInfo) == variables

\* Object.assign({}, variables, { innerCursor: collaborators.pageInfo.endCursor })
InnerContext(variables, pageInfo) ==
    [variables EXCEPT !.innerCursor = pageInfo.endCursor]

\* The context of the next outer page without the reset of the inner cursor.
OuterContext_keepsInner(variables, pageInfo) ==
    [variables EXCEPT !.endCursor = pageInfo.endCursor]

\* Object.assign({}, variables, { endCursor: pageInfo.endCursor, innerCursor: null })
OuterContext(variables, pageInfo) ==
    [variables EXCEPT !.endCursor = pageInfo.endCursor, !.innerCursor = Null]

\* A catch block that throws the error again.
catchBlock_rethrows(call) == call

\* The catch block of retrieveQueryResults: the call returns an empty array.
catchBlock(call) == [call EXCEPT !.pc = "return", !.results = <<>>]

Top == stack[Len(stack)]

SetTop(call) == [stack EXCEPT ![Len(stack)] = call]

\* result.organization.repositories.nodes, without the nulls
Repositories(call) == OrElse(call.result, <<>>).organization.repositories.nodes

----------------------------------------------------------------------------
(* The application: parse the arguments, execute, write *)

Init ==
    /\ org \in Organizations
    /\ api \in IF TotalPages(org) <= MaxBrokenPages THEN {"cursor", "null", "empty"}
               ELSE {"cursor"}
    /\ legacy = [pc |-> "none", endCursor |-> Null]
    /\ options \in [paginate : BOOLEAN, sortBy : {"user", "repository"},
                    showAllUsers : BOOLEAN]
    /\ phase = "parsed"
    /\ stack = <<>>
    /\ requests = <<>>
    /\ inflight = 0
    /\ failed = <<>>
    /\ received = {}
    /\ raw = <<>>
    /\ returned = <<>>
    /\ written = <<>>
    /\ fnOp = "none"
    /\ fnIn = <<>>
    /\ fnOut = <<>>

failures == Len(failed)

\* execute creates the initial variables and calls retrieveQueryResults.
Execute ==
    /\ phase = "parsed"
    /\ phase' = "retrieving"
    /\ stack' = <<NewCall(InitialVariables("acme"))>>
    /\ UNCHANGED <<org, api, legacy, options, requests, inflight, failed, received, raw,
                   returned, written, fnVars>>

\* client.query called a first time without await, then called and awaited.
Query_notAwaited ==
    /\ phase = "retrieving"
    /\ Top.pc = "query"
    /\ Len(requests) < RequestCap
    /\ requests' = requests \o <<Top.variables, Top.variables>>
    /\ inflight' = inflight + 2
    /\ stack' = SetTop([Top EXCEPT !.pc = "await"])
    /\ UNCHANGED <<org, api, legacy, options, phase, failed, received, raw, returned,
                   written, fnVars>>

\* client.query(query, variables) is called.
Query ==
    /\ phase = "retrieving"
    /\ Top.pc = "query"
    /\ Len(requests) < RequestCap
    /\ requests' = Append(requests, Top.variables)
    /\ inflight' = inflight + 1
    /\ stack' = SetTop([Top EXCEPT !.pc = "await"])
    /\ UNCHANGED <<org, api, legacy, options, phase, failed, received, raw, returned, written,
                   fnVars>>

\* The request is answered: the call starts its loop over the repositories.
Respond ==
    /\ phase = "retrieving"
    /\ Top.pc = "await"
    /\ LET result == ClientQuery(org, Top.variables)
       IN  /\ stack' = SetTop([Top EXCEPT !.pc = "loop", !.result = Some(result),
                                          !.i = 1])
           /\ received' = received \cup RecordsOf(result)
    /\ inflight' = inflight - 1
    /\ UNCHANGED <<org, api, legacy, options, phase, requests, failed, raw, returned, written,
                   fnVars>>

\* The request fails: client.query throws inside the try block.
Throw ==
    /\ phase = "retrieving"
    /\ Top.pc = "await"
    /\ Len(failed) < MaxFailures
    /\ failed' = Append(failed, Top.variables)
    /\ inflight' = inflight - 1
    /\ stack' = SetTop([Top EXCEPT !.pc = "thrown"])
    /\ UNCHANGED <<org, api, legacy, options, phase, requests, received, raw, returned, written,
                   fnVars>>

\* The exception reaches the catch block of the call it was thrown in.  A call
\* that let it escape would end, and the exception would surface at the await
\* of its caller, or leave retrieveQueryResults when there is none.
Catch ==
    /\ phase = "retrieving"
    /\ Top.pc = "thrown"
    /\ LET handled == catchBlock(Top)
       IN  IF handled.pc # "thrown"
           THEN /\ stack' = SetTop(handled)
                /\ phase' = phase
           ELSE IF Len(stack) = 1
                THEN /\ stack' = <<>>
                     /\ phase' = "raised"
                ELSE /\ stack' = [SubSeq(stack, 1, Len(stack) - 1)
                                    EXCEPT ![Len(stack) - 1].pc = "thrown"]
                     /\ phase' = phase
    /\ UNCHANGED <<org, api, legacy, options, requests, inflight, failed, received, raw,
                   returned, written, fnVars>>

\* One pass of the loop over the repositories of the response.
ProcessRepository ==
    /\ phase = "retrieving"
    /\ Top.pc = "loop"
    /\ Top.i <= Len(Repositories(Top))
    /\ LET repo == Repositories(Top)[Top.i]
       IN  IF repo.collaborators = Null
           THEN stack' = SetTop([Top EXCEPT !.i = Top.i + 1])
           ELSE LET collaborators == OrElse(repo.collaborators, <<>>)
                    results == Top.results \o processCollaborators(repo, collaborators)
                IN  IF processAdditionalPages(options.paginate, collaborators.pageInfo)
                    THEN stack' =
                           Append(SetTop([Top EXCEPT !.results = results,
                                                     !.pc = "awaitInner"]),
                                  NewCall(InnerContext(Top.variables,
                                                       collaborators.pageInfo)))
                    ELSE stack' = SetTop([Top EXCEPT !.results = results,
                                                     !.i = Top.i + 1])
    /\ UNCHANGED <<org, api, legacy, options, phase, requests, inflight, failed, received, raw,
                   returned, written, fnVars>>

\* After the loop: the next page of the repository connection, if any.
AdditionalOuter ==
    /\ phase = "retrieving"
    /\ Top.pc = "loop"
    /\ Top.i > Len(Repositories(Top))
    /\ LET pageInfo == OrElse(Top.result, <<>>).organization.repositories.pageInfo
       IN  IF processAdditionalPages(options.paginate, pageInfo)
           THEN stack' = Append(SetTop([Top EXCEPT !.pc = "awaitOuter"]),
                                NewCall(OuterContext(Top.variables, pageInfo)))
           ELSE stack' = SetTop([Top EXCEPT !.pc = "return"])
    /\ UNCHANGED <<org, api, legacy, options, phase, requests, inflight, failed, received, raw,
                   returned, written, fnVars>>

\* A call returns its results: its caller pushes them and goes on, and the
\* outermost call hands them to execute.
Return ==
    /\ phase = "retrieving"
    /\ Top.pc = "return"
    /\ IF Len(stack) = 1
       THEN /\ raw' = Top.results
            /\ stack' = <<>>
            /\ phase' = "retrieved"
       ELSE LET caller == stack[Len(stack) - 1]
                results == caller.results \o Top.results
            IN  /\ stack' = [SubSeq(stack, 1, Len(stack) - 1)
                               EXCEPT ![Len(stack) - 1] =
                                 IF caller.pc = "awaitInner"
                                 THEN [caller EXCEPT !.results = results,
                                                     !.pc = "loop", !.i = caller.i + 1]
                                 ELSE [caller EXCEPT !.results = results,
                                                     !.pc = "return"]]
                /\ raw' = raw
                /\ phase' = phase
    /\ UNCHANGED <<org, api, legacy, options, requests, inflight, failed, received, returned,
                   written, fnVars>>

\* execute removes the duplicates, sorts and returns.
Unique ==
    /\ phase = "retrieved"
    /\ returned' = sort(getUniqueInstances(raw), options.sortBy)
    /\ phase' = "executed"
    /\ UNCHANGED <<org, api, legacy, options, stack, requests, inflight, failed, received, raw,
                   written, fnVars>>

\* The application writes what execute returned.
Write ==
    /\ phase = "executed"
    /\ written' = writeToConsole(returned)
    /\ phase' = "done"
    /\ UNCHANGED <<org, api, legacy, options, stack, requests, inflight, failed, received, raw,
                   returned, fnVars>>

Next ==
    \/ Execute
    \/ Query
    \/ Respond
    \/ Throw
    \/ Catch
    \/ ProcessRepository
    \/ AdditionalOuter
    \/ Return
    \/ Unique
    \/ Write

Spec == Init /\ [][Next]_vars

\* A step of the program itself: a continuation the event loop runs.
Continue ==
    \/ Execute
    \/ Query
    \/ Catch
    \/ ProcessRepository
    \/ AdditionalOuter
    \/ Return
    \/ Write

\* The request in flight ends: the step is Respond or Throw.
Answered == inflight > 0 /\ inflight' = inflight - 1

\* execute goes on after the await of retrieveQueryResults: the step is Unique.
Resumed == phase = "retrieved" /\ phase' = "executed"

\* The run under the scheduling of the event loop: a continuation that can
\* run is run, and the API answers or fails every request.
FairSpec ==
    /\ Spec
    /\ WF_vars(Continue)
    /\ WF_inflight(Answered)
    /\ WF_phase(Resumed)

----------------------------------------------------------------------------
(* The functions on their own: createUserSummary, getUniqueInstances and   *)
(* sort applied to inputs drawn from bounded sets.                         *)

SeqsUpTo(S, n) == UNION {[1..k -> S] : k \in 0..n}

Team1 == [permission |-> "WRITE", name |-> "T1"]

Team2 == [permission |-> "READ", name |-> "T2"]

Summary(repository, handle, permission, orgPermission, repoPermission, teams) ==
    [repository |-> repository, handle |-> handle, permission |-> permission,
     organizationPermission |-> orgPermission,
     repositoryPermission |-> repoPermission,
     teamPermission |-> teams]

\* Summaries as createUserSummary builds them: some agree on repository and
\* handle and differ in the rest, two differ only in the order of the teams.
SampleSummaries ==
    {Summary("acme/api", "bob", "READ", Some("READ"), Null, Some(<<>>)),
     Summary("acme/api", "bob", "ADMIN", Null, Some("ADMIN"), Some(<<Team1, Team2>>)),
     Summary("acme/api", "bob", "ADMIN", Null, Some("ADMIN"), Some(<<Team2, Team1>>)),
     Summary("acme/web", "alice", "WRITE", Null, Null, Null),
     Summary("acme/web", "bob", "ADMIN", Some("ADMIN"), Null, Some(<<Team1>>)),
     Summary("unknown", "alice", "READ", Some("READ"), Null, Some(<<>>))}

\* Permission sources as <<kind, name, permission>>.
SampleSources ==
    {<<"Organization", "acme", "READ">>, <<"Organization", "acme", "ADMIN">>,
     <<"Repository", "acme/api", "WRITE">>, <<"Repository", "acme/api", "READ">>,
     <<"Team", "T1", "WRITE">>, <<"Team", "T2", "READ">>}

NoInput ==
    [kind |-> "none", records |-> <<>>, by |-> "repository",
     nameWithOwner |-> Null, permissionSources |-> Null]

RecordInputs ==
    {[NoInput EXCEPT !.kind = "records", !.records = records, !.by = by] :
        records \in SeqsUpTo(SampleSummaries, MaxLen), by \in {"user", "repository"}}

EdgeInputs ==
    {[NoInput EXCEPT !.kind = "edge", !.nameWithOwner = name,
                     !.permissionSources = sources] :
        name \in {Null, Some("acme/api")},
        sources \in {Null} \cup {Some(d) : d \in SeqsUpTo(SampleSources, MaxSources)}}

\* The repository node and the collaborator edge of the response for an input.
InputRepository(in) == [nameWithOwner |-> in.nameWithOwner]

InputEdge(in) ==
    [permission |-> "ADMIN",
     permissionSources |->
        IF in.permissionSources = Null THEN Null
        ELSE LET descs == OrElse(in.permissionSources, <<>>)
             IN  Some([i \in 1..Len(descs) |-> PermissionSource(descs[i])]),
     node |-> [login |-> "alice"]]

InitFn ==
    /\ org = [pages |-> 1, layout |-> <<>>]
    /\ api = "cursor"
    /\ legacy = [pc |-> "none", endCursor |-> Null]
    /\ options = [paginate |-> FALSE, sortBy |-> "repository", showAllUsers |-> FALSE]
    /\ phase = "functions"
    /\ stack = <<>>
    /\ requests = <<>>
    /\ inflight = 0
    /\ failed = <<>>
    /\ received = {}
    /\ raw = <<>>
    /\ returned = <<>>
    /\ written = <<>>
    /\ fnOp = "none"
    /\ fnIn \in RecordInputs \cup EdgeInputs
    /\ fnOut = <<>>

ApplyGetUniqueInstances ==
    /\ phase = "functions"
    /\ fnOp = "none"
    /\ fnIn.kind = "records"
    /\ fnOp' = "getUniqueInstances"
    /\ fnOut' = getUniqueInstances(fnIn.records)
    /\ UNCHANGED <<runVars, fnIn>>

ApplySort ==
    /\ phase = "functions"
    /\ fnOp = "none"
    /\ fnIn.kind = "records"
    /\ fnOp' = "sort"
    /\ fnOut' = sort(fnIn.records, fnIn.by)
    /\ UNCHANGED <<runVars, fnIn>>

ApplyCreateUserSummary ==
    /\ phase = "functions"
    /\ fnOp = "none"
    /\ fnIn.kind = "edge"
    /\ fnOp' = "createUserSummary"
    /\ fnOut' = createUserSummary(InputRepository(fnIn), InputEdge(fnIn))
    /\ UNCHANGED <<runVars, fnIn>>

NextFn ==
    \/ ApplyGetUniqueInstances
    \/ ApplySort
    \/ ApplyCreateUserSummary

SpecFn == InitFn /\ [][NextFn]_vars

----------------------------------------------------------------------------
(* The first script: one do-while loop that follows the pages of the       *)
(* repository connection and prints every response.  The loop keeps its    *)
(* cursor in legacy.endCursor and its position in legacy.pc.               *)

InitLegacy ==
    /\ org \in Organizations
    /\ api = "cursor"
    /\ options \in [paginate : BOOLEAN, prettify : BOOLEAN]
    /\ legacy = [pc |-> "do", endCursor |-> Null]
    /\ phase = "legacy"
    /\ stack = <<>>
    /\ requests = <<>>
    /\ inflight = 0
    /\ failed = <<>>
    /\ received = {}
    /\ raw = <<>>
    /\ returned = <<>>
    /\ written = <<>>
    /\ fnOp = "none"
    /\ fnIn = <<>>
    /\ fnOut = <<>>

\* const variables = { orgname: organization, endCursor: endCursor }
LegacyVariables(endCursor) == [orgname |-> "acme", endCursor |-> endCursor]

\* The script's query asks for collaborators(first: 100, after: null).
LegacyQuery(shape, variables) ==
    ClientQuery(shape, [orgname |-> variables.orgname,
                        endCursor |-> variables.endCursor, innerCursor |-> Null])

\* hasNextPage ? endCursor : null
LegacyNextCursor(pageInfo) == IF pageInfo.hasNextPage THEN pageInfo.endCursor ELSE Null

\* while (endCursor != null && paginate)
LegacyLoopTest(endCursor, paginate) == endCursor # Null /\ paginate

\* The body of the loop starts: client(query, variables) is called.
LegacyRequest ==
    /\ phase = "legacy"
    /\ legacy.pc = "do"
    /\ Len(requests) < RequestCap
    /\ requests' = Append(requests, LegacyVariables(legacy.endCursor))
    /\ inflight' = inflight + 1
    /\ legacy' = [legacy EXCEPT !.pc = "await"]
    /\ UNCHANGED <<org, api, options, phase, stack, failed, received, raw, returned,
                   written, fnVars>>

\* The response arrives: it is printed and the cursor is taken from it.
LegacyRespond ==
    /\ phase = "legacy"
    /\ legacy.pc = "await"
    /\ LET result == LegacyQuery(org, LegacyVariables(legacy.endCursor))
       IN  /\ written' = Append(written, [spaces |-> IF options.prettify THEN 2 ELSE 0,
                                          value |-> result])
           /\ legacy' = [pc |-> "while",
                         endCursor |->
                            LegacyNextCursor(result.organization.repositories.pageInfo)]
    /\ inflight' = inflight - 1
    /\ UNCHANGED <<org, api, options, phase, stack, requests, failed, received, raw,
                   returned, fnVars>>

\* The request fails: the catch block prints the error, and the cursor keeps
\* the value it had.
LegacyThrow ==
    /\ phase = "legacy"
    /\ legacy.pc = "await"
    /\ Len(failed) < MaxFailures
    /\ failed' = Append(failed, LegacyVariables(legacy.endCursor))
    /\ inflight' = inflight - 1
    /\ legacy' = [legacy EXCEPT !.pc = "while"]
    /\ UNCHANGED <<org, api, options, phase, stack, requests, received, raw, returned,
                   written, fnVars>>

\* The test of the loop.
LegacyWhile ==
    /\ phase = "legacy"
    /\ legacy.pc = "while"
    /\ legacy' = [legacy EXCEPT !.pc = IF LegacyLoopTest(legacy.endCursor,
                                                         options.paginate)
                                       THEN "do" ELSE "end"]
    /\ UNCHANGED <<org, api, options, phase, stack, requests, inflight, failed,
                   received, raw, returned, written, fnVars>>

NextLegacy ==
    \/ LegacyRequest
    \/ LegacyRespond
    \/ LegacyThrow
    \/ LegacyWhile

SpecLegacy == InitLegacy /\ [][NextLegacy]_vars

----------------------------------------------------------------------------
(* Properties of a run *)

Retrieved == phase \in {"retrieved", "executed", "done"}

Executed == phase \in {"executed", "done"}

NoDuplicates(s) == \A i, j \in 1..Len(s) : s[i] = s[j] => i = j

PrimaryKey(r, by) == IF by = "user" THEN r.handle ELSE r.repository

SecondaryKey(r, by) == IF by = "user" THEN r.repository ELSE r.handle

\* Adjacent elements are in the order of the primary key and, when that is
\* equal, of the secondary key.
Ordered(s, by) ==
    \A i \in 1..(Len(s) - 1) :
        \/ Rank(PrimaryKey(s[i], by)) < Rank(PrimaryKey(s[i + 1], by))
        \/ /\ PrimaryKey(s[i], by) = PrimaryKey(s[i + 1], by)
           /\ Rank(SecondaryKey(s[i], by)) <= Rank(SecondaryKey(s[i + 1], by))

\* The response to the first request of a run.
FirstResponse == ClientQuery(org, InitialVariables("acme"))

\* C1: with pagination enabled and no failing request, the sequence
\* retrieveQueryResults returns holds every record the API serves for the
\* organization, on whatever outer page and inner page it lies.
C1_AllRecordsRetrieved ==
    (Retrieved /\ options.paginate /\ failures = 0)
        => AllRecords(org) \subseteq Range(raw)

\* A finished run over two outer pages, each with a repository of three
\* collaborator pages, with nothing missing.
C1_Witness ==
    /\ Retrieved /\ options.paginate /\ failures = 0
    /\ org.pages = 2
    /\ org.layout = <<3>>
    /\ Cardinality(AllRecords(org)) = 12
    /\ AllRecords(org) \subseteq Range(raw)

\* C2: whatever requests fail, no exception leaves retrieveQueryResults, and
\* what it returns holds every record of every response that was received.
C2_FailuresContained ==
    /\ phase # "raised"
    /\ Retrieved => received \subseteq Range(raw)

\* The request for the second collaborator page threw, and the records of the
\* first page are in the result.
C2_Witness ==
    /\ Retrieved
    /\ org = [pages |-> 1, layout |-> <<2>>]
    /\ failed = <<[orgname |-> "acme", endCursor |-> Null, innerCursor |-> Some("c1")]>>
    /\ Range(raw) = RecordsOf(FirstResponse)
    /\ Len(raw) = 2

\* C3: with pagination disabled one request is issued, whatever page
\* information the response carries, and the result is the records of that
\* response (nothing when the request failed).
C3_SingleRequest ==
    ~options.paginate =>
        /\ Len(requests) <= 1
        /\ Retrieved =>
              /\ Len(requests) = 1
              /\ Range(raw) = IF failures = 0 THEN RecordsOf(FirstResponse) ELSE {}

\* A finished run without pagination whose only response announced a next page,
\* with a cursor, on both connections.
C3_Witness ==
    /\ Retrieved /\ ~options.paginate /\ failures = 0
    /\ Len(requests) = 1
    /\ raw # <<>>
    /\ FirstResponse.organization.repositories.pageInfo
         = [hasNextPage |-> TRUE, endCursor |-> Some("c1")]
    /\ \E k \in 1..Len(org.layout) :
         /\ org.layout[k] > 1
         /\ OrElse(FirstResponse.organization.repositories.nodes[k].collaborators,
                   <<>>).pageInfo = [hasNextPage |-> TRUE, endCursor |-> Some("c1")]

\* Every repository of the organization has the same number of collaborator pages.
UniformInner(m) ==
    /\ org.layout # <<>>
    /\ \A k \in 1..Len(org.layout) : org.layout[k] = m

\* C4: with pagination enabled, N outer pages and M inner pages in every
\* repository, a run issues at most N + N * M requests, however many
\* repositories a page holds.
C4_RequestBound ==
    \A m \in 1..MaxInner :
        (options.paginate /\ UniformInner(m))
            => Len(requests) <= org.pages + org.pages * m

\* C5: without failing requests execute returns every distinct record once,
\* in the order of the sort column, also when the retrieval emitted a record
\* several times; two repositories on one outer page, one with one page of
\* two collaborators and one with two pages of one collaborator, give four
\* records.
C5_ExecuteUniqueSorted ==
    (Executed /\ failures = 0) =>
        /\ NoDuplicates(returned)
        /\ Range(returned) = Range(raw)
        /\ options.paginate => Range(returned) = AllRecords(org)
        /\ Ordered(returned, options.sortBy)
        /\ (options.paginate /\ org = [pages |-> 1, layout |-> <<1, 2>>])
              => Len(returned) = 4

\* execute has returned after a retrieval that emitted records more than once.
C5_Witness ==
    /\ Executed /\ failures = 0 /\ options.paginate
    /\ options.sortBy = "repository"
    /\ org = [pages |-> 1, layout |-> <<2, 2>>]
    /\ Len(raw) > Len(returned)
    /\ Len(returned) = 6
    /\ Ordered(returned, "repository")

\* C6: unless showAllUsers is set, only records whose permission is ADMIN
\* are written.
C6_OnlyAdminsWritten ==
    (phase = "done" /\ ~options.showAllUsers)
        => \A i \in 1..Len(written) : written[i].permission = "ADMIN"

----------------------------------------------------------------------------
(* Properties of the functions *)

Count(s, x) == Cardinality({i \in 1..Len(s) : s[i] = x})

IsPermutation(s, t) ==
    /\ Len(s) = Len(t)
    /\ \A x \in Range(s) \cup Range(t) : Count(s, x) = Count(t, x)

\* C7: getUniqueInstances applied to its own output gives that output again,
\* element for element.
C7_UniqueIdempotent ==
    fnOp = "getUniqueInstances" => getUniqueInstances(fnOut) = fnOut

\* An input in which one record occurs three times.
C7_Witness ==
    /\ fnOp = "getUniqueInstances"
    /\ Len(fnIn.records) = 3
    /\ fnIn.records[1] = fnIn.records[2] /\ fnIn.records[2] = fnIn.records[3]
    /\ Len(fnOut) = 1
    /\ getUniqueInstances(fnOut) = fnOut

\* C8: the output of getUniqueInstances holds every distinct record of the
\* input once and nothing else, records being the same only when all their
\* fields are, the team list by content and order.
C8_UniqueByAllFields ==
    fnOp = "getUniqueInstances" =>
        /\ NoDuplicates(fnOut)
        /\ Range(fnOut) = Range(fnIn.records)

\* Two records that agree on repository and handle and differ in the order of
\* their teams are both kept, and a repeated record is kept once.
C8_Witness ==
    /\ fnOp = "getUniqueInstances"
    /\ Len(fnIn.records) = 3
    /\ Len(fnOut) = 2
    /\ fnOut[1].repository = fnOut[2].repository
    /\ fnOut[1].handle = fnOut[2].handle
    /\ fnOut[1].teamPermission = Some(<<Team1, Team2>>)
    /\ fnOut[2].teamPermission = Some(<<Team2, Team1>>)

\* C9: for both columns sort returns a permutation of its input whose adjacent
\* elements are in the order of the primary key and, when that is equal, of
\* the secondary key: (repository, handle) for "repository", (handle,
\* repository) for "user".
C9_SortOrdered ==
    fnOp = "sort" =>
        /\ IsPermutation(fnOut, fnIn.records)
        /\ Ordered(fnOut, fnIn.by)

\* Sorting by user moved records, and two of them tie on the handle.
C9_Witness ==
    /\ fnOp = "sort"
    /\ fnIn.by = "user"
    /\ Len(fnIn.records) = 3
    /\ fnOut # fnIn.records
    /\ \E i \in 1..2 :
         /\ fnOut[i].handle = fnOut[i + 1].handle
         /\ fnOut[i].repository # fnOut[i + 1].repository
         /\ \E j, k \in 1..3 :
              j < k /\ fnIn.records[j] = fnOut[i + 1] /\ fnIn.records[k] = fnOut[i]
    /\ Ordered(fnOut, "user")

\* The permission of the first source of a kind, null when there is none.
FirstOfKind(descs, kind) ==
    IF \A i \in 1..Len(descs) : descs[i][1] # kind THEN Null
    ELSE LET first == CHOOSE i \in 1..Len(descs) :
                         /\ descs[i][1] = kind
                         /\ \A j \in 1..Len(descs) : descs[j][1] = kind => i <= j
         IN  Some(descs[first][3])

IsTeamDesc(desc) == desc[1] = "Team"

\* The (name, permission) pairs of the team sources, in the order of the sources.
TeamsOf(descs) ==
    LET teams == SelectSeq(descs, IsTeamDesc)
    IN  [i \in 1..Len(teams) |-> [permission |-> teams[i][3], name |-> teams[i][2]]]

\* C10: createUserSummary gives the permission of the first Organization source
\* as organizationPermission, of the first Repository source as
\* repositoryPermission (null without one), the pairs of the Team sources in
\* source order as team permissions, and nameWithOwner, or "unknown" without
\* it, as repository; the sources [Team T1 WRITE, Organization READ] give
\* READ, null and [(T1, WRITE)].
C10_SummaryMapping ==
    fnOp = "createUserSummary" =>
        LET present == fnIn.permissionSources # Null
            descs == OrElse(fnIn.permissionSources, <<>>)
        IN  /\ fnOut.repository = IF fnIn.nameWithOwner = Null THEN "unknown"
                                  ELSE OrElse(fnIn.nameWithOwner, "")
            /\ fnOut.handle = "alice"
            /\ fnOut.permission = "ADMIN"
            /\ fnOut.organizationPermission = FirstOfKind(descs, "Organization")
            /\ fnOut.repositoryPermission = FirstOfKind(descs, "Repository")
            /\ fnOut.teamPermission = IF present THEN Some(TeamsOf(descs)) ELSE Null
            /\ descs = <<<<"Team", "T1", "WRITE">>, <<"Organization", "acme", "READ">>>>
                 => /\ fnOut.organizationPermission = Some("READ")
                    /\ fnOut.repositoryPermission = Null
                    /\ fnOut.teamPermission = Some(<<Team1>>)

\* The summary of the edge with the sources [Team T1 WRITE, Organization READ]
\* of a repository without a name.
C10_Witness ==
    /\ fnOp = "createUserSummary"
    /\ fnIn.nameWithOwner = Null
    /\ fnIn.permissionSources
         = Some(<<<<"Team", "T1", "WRITE">>, <<"Organization", "acme", "READ">>>>)
    /\ fnOut.repository = "unknown"
    /\ fnOut.organizationPermission = Some("READ")
    /\ fnOut.teamPermission = Some(<<Team1>>)

----------------------------------------------------------------------------
(* Properties of the order and the variables of the requests *)

\* The page of the repository connection a request asks for.
OuterPage(variables) == PageOf(variables.endCursor) + 1

\* A request for a further page of the collaborators.
IsInnerRequest(variables) == variables.innerCursor # Null

\* C11: with pagination enabled, a request for the next page of the
\* repository connection is issued only after every request for a further
\* collaborator page of the current page: in the order of the requests, no
\* inner-page request of an outer page follows a request for a later outer page.
C11_OuterAfterInner ==
    options.paginate =>
        \A i, j \in 1..Len(requests) :
            (i < j /\ IsInnerRequest(requests[j]))
                => OuterPage(requests[i]) <= OuterPage(requests[j])

\* The calls that are waiting for the response to their request.
Awaiting == {d \in 1..Len(stack) : stack[d].pc = "await"}

\* C12: at every moment at most one request is in flight, at every depth of
\* the recursion: the only call that can wait for a response is the innermost
\* one, and a request is issued only when none is in flight.
C12_OneInFlight ==
    /\ inflight <= 1
    /\ inflight = Cardinality(Awaiting)
    /\ Awaiting \subseteq {Len(stack)}

\* The request of a call three levels deep is in flight, after three others
\* were answered.
C12_Witness ==
    /\ inflight = 1
    /\ Len(stack) = 3
    /\ Top.pc = "await"
    /\ Len(requests) >= 4
    /\ failures = 0

\* C13: over an API that serves finite data retrieveQueryResults terminates
\* after finitely many requests, whether requests fail or not: every run
\* reaches the point where the outermost call has returned.
C13_Terminates == <>Retrieved

\* The retrieval of two outer pages with two repositories of two collaborator
\* pages each has ended, after ten or more requests of which one failed.
C13_Witness ==
    /\ Retrieved
    /\ options.paginate
    /\ org = [pages |-> 2, layout |-> <<2, 2>>]
    /\ failures = 1
    /\ Len(requests) >= 10
    /\ Len(requests) < RequestCap

\* The call at depth d carries the variables of its caller with one cursor
\* replaced: the end cursor of the collaborators of the repository the caller
\* is at, or the end cursor of the repository connection and no inner cursor.
DerivedFromCaller(d) ==
    LET caller == stack[d - 1]
        child == stack[d].variables
        result == OrElse(caller.result, <<>>)
    IN  /\ child.orgname = caller.variables.orgname
        /\ caller.pc \in {"awaitInner", "awaitOuter"}
        /\ caller.pc = "awaitInner" =>
              LET collaborators ==
                      OrElse(Repositories(caller)[caller.i].collaborators, <<>>)
              IN  /\ child.endCursor = caller.variables.endCursor
                  /\ child.innerCursor = collaborators.pageInfo.endCursor
        /\ caller.pc = "awaitOuter" =>
              /\ child.endCursor = result.organization.repositories.pageInfo.endCursor
              /\ child.innerCursor = Null

\* The variables of the requests and of the calls in a state.
RequestsDerived ==
    /\ \A d \in 2..Len(stack) : DerivedFromCaller(d)
    /\ stack # <<>> => stack[1].variables = InitialVariables("acme")
    /\ requests # <<>> =>
          requests[1] = [orgname |-> "acme", endCursor |-> Null, innerCursor |-> Null]
    /\ \A i \in 1..Len(requests) : requests[i].orgname = "acme"
    /\ (stack # <<>> /\ Top.pc = "await") => requests[Len(requests)] = Top.variables

\* No step changes the variables of a call that stays on the stack.
VariablesKept ==
    \A d \in 1..Len(stack) :
        d <= Len(stack') => stack'[d].variables = stack[d].variables

\* C14: the first request has both cursors null; every later request carries
\* the variables of its caller with one cursor replaced (the inner request
\* keeps the outer cursor and carries the collaborators' endCursor, the outer
\* request carries the repository connection's endCursor and a null inner
\* cursor); orgname is the same in every request; and the caller's own
\* variables are never changed.
C14_VariablesDerived == []RequestsDerived /\ [][VariablesKept]_vars

\* The request for the second outer page is in flight, issued by the call for
\* the second collaborator page, itself issued by the outermost call.
C14_Witness ==
    /\ Len(stack) = 3
    /\ stack[1].pc = "awaitInner"
    /\ stack[2].pc = "awaitOuter"
    /\ stack[1].variables = [orgname |-> "acme", endCursor |-> Null, innerCursor |-> Null]
    /\ stack[2].variables =
          [orgname |-> "acme", endCursor |-> Null, innerCursor |-> Some("c1")]
    /\ stack[3].variables =
          [orgname |-> "acme", endCursor |-> Some("c1"), innerCursor |-> Null]
    /\ Top.pc = "await"
    /\ requests[Len(requests)] = Top.variables

\* The pageInfo the caller of the call at depth d read before it made the call.
PageInfoFollowed(d) ==
    LET caller == stack[d - 1]
    IN  IF caller.pc = "awaitInner"
        THEN OrElse(Repositories(caller)[caller.i].collaborators, <<>>).pageInfo
        ELSE OrElse(caller.result, <<>>).organization.repositories.pageInfo

\* A pageInfo that announces a next page and gives a cursor to it.
HasCursorToNext(pageInfo) ==
    /\ pageInfo.hasNextPage
    /\ pageInfo.endCursor # Null
    /\ pageInfo.endCursor # Some("")

\* C15: a request for a next page is issued only when pagination is enabled
\* and the pageInfo read has hasNextPage = true and an endCursor that is
\* neither null nor empty; a page that reports hasNextPage = true with a null
\* or empty endCursor triggers no request on its axis, so no request carries
\* an empty cursor and only the first carries two null cursors.
C15_NextPageGuard ==
    /\ \A d \in 2..Len(stack) :
          options.paginate /\ HasCursorToNext(PageInfoFollowed(d))
    /\ \A i \in 1..Len(requests) :
          /\ requests[i].endCursor # Some("")
          /\ requests[i].innerCursor # Some("")
          /\ i > 1 => (requests[i].endCursor # Null \/ requests[i].innerCursor # Null)

\* The retrieval has ended after two requests: the second collaborator page
\* and the only repository page reported a next page with an empty cursor.
C15_Witness ==
    /\ Retrieved /\ options.paginate /\ failures = 0
    /\ api = "empty"
    /\ org = [pages |-> 1, layout |-> <<2>>]
    /\ FirstResponse.organization.repositories.pageInfo
          = [hasNextPage |-> TRUE, endCursor |-> Some("")]
    /\ requests = <<InitialVariables("acme"),
                    [orgname |-> "acme", endCursor |-> Null, innerCursor |-> Some("c1")]>>
    /\ Len(raw) = 4

\* C16: there are no retries: once a request has failed, no request with the
\* same variables (outer cursor, inner cursor) is issued again, and the call
\* whose request failed returns an empty sequence without a request of its own.
C16_NoRetry ==
    /\ (stack # <<>> /\ Top.pc = "await") => Top.variables \notin Range(failed)
    /\ \A d \in 1..Len(stack) :
          (stack[d].pc = "return" /\ stack[d].result = Null)
              => (stack[d].results = <<>> /\ d = Len(stack))

\* The number of collaborator edges the API serves for the organization.
EdgesServed(shape) ==
    shape.pages * SumSeq([k \in 1..Len(shape.layout) |-> shape.layout[k] * PageSize(k)])

\* The repository whose next collaborator page the call at depth d was made for.
RepositoryOfCall(d) ==
    OrElse(Repositories(stack[d - 1])[stack[d - 1].i].nameWithOwner, "unknown")

\* C17: the inner cursor taken from the collaborators of a repository is
\* applied to that repository only: the response to an inner-page request
\* holds records of no other repository, and so a complete retrieval emits
\* every collaborator edge once.
C17_CursorOwnRepository ==
    /\ \A d \in 2..Len(stack) :
          (stack[d - 1].pc = "awaitInner" /\ stack[d].result # Null)
              => \A r \in RecordsOf(OrElse(stack[d].result, <<>>)) :
                     r.repository = RepositoryOfCall(d)
    /\ (Retrieved /\ options.paginate /\ failures = 0)
          => Len(raw) = EdgesServed(org)

----------------------------------------------------------------------------
(* Properties of the first script *)

\* C18: in the do-while loop of the first script a request that fails ends
\* the loop: once a request has failed the loop is at its test or has ended,
\* and no further request is issued or in flight.
C18_FailureEndsLoop ==
    failed # <<>> =>
        /\ legacy.pc \in {"while", "end"}
        /\ inflight = 0
        /\ requests[Len(requests)] = failed[Len(failed)]

====
